---- MODULE Spec2Model ----
(***************************************************************************)
(* Model of the DuckDNS updater: the Scheduler (internal/scheduler), the   *)
(* update Client (internal/duckdns) and the result of the IP fetcher it    *)
(* is wired to (internal/ip).                                              *)
(*                                                                         *)
(* Run is one goroutine.  It is split at its blocking points: the Fetch    *)
(* call, the Update call and the select on ticker.C / ctx.Done().          *)
(* Strings that the code inspects (HTTP bodies) are sequences of           *)
(* one-character strings, so that strings.TrimSpace is computed.           *)
(***************************************************************************)
EXTENDS Integers, Sequences, FiniteSets, TLC

\* ---------------------------------------------------------------- bounds
\* cycleNo saturates here: the value MaxCycle means "MaxCycle or more"
MaxCycle == 3

\* ------------------------------------------------------- program constants
StatusOK == 200
StatusInternalServerError == 500
DefaultMaxRetries == 3

\* ----------------------------------------------------------------- inputs
\* IP addresses a fetcher can hand to the Scheduler (validated dotted quads)
IPs == {"1.2.3.4", "5.6.7.8"}

OK == <<"O", "K">>
KO == <<"K", "O">>
\* bodies the update provider may answer with
Bodies == {OK, KO, <<" ", "O", "K", "\n">>, <<>>, <<"\n">>}
Statuses == {StatusOK, StatusInternalServerError}

\* what c.httpClient.Do / io.ReadAll deliver to Update
TransportError == [kind |-> "transport", status |-> 0, body |-> <<>>]
ReadError == [kind |-> "readerr", status |-> StatusOK, body |-> <<>>]
HTTPResponses == [kind : {"http"}, status : Statuses, body : Bodies]
NoResp == [kind |-> "none", status |-> 0, body |-> <<>>]

\* ------------------------------------------------------ strings.TrimSpace
\* the white space of Latin-1 that has no escape: U+000B, U+0085, U+00A0
VerticalTab == ""
NextLine == ""
NoBreakSpace == " "
\* a text is a sequence of code points; a code point above U+00FF, which a
\* string of this module cannot hold, is written by its name
IdeographicSpace == "U+3000"
LineSeparator == "U+2028"
ZeroWidthSpace == "U+200B"
\* the White_Space table above Latin-1: U+1680, U+2000..U+200A, U+2028,
\* U+2029, U+202F, U+205F, U+3000
WideSpaces ==
    {"U+1680", "U+2000", "U+2001", "U+2002", "U+2003", "U+2004", "U+2005",
     "U+2006", "U+2007", "U+2008", "U+2009", "U+200A", LineSeparator,
     "U+2029", "U+202F", "U+205F", IdeographicSpace}
\* unicode.IsSpace, by which strings.TrimSpace cuts: in Latin-1 the eight
\* characters listed, above it the White_Space table
IsSpace(c) ==
    \/ c \in {"\t", "\n", VerticalTab, "\f", "\r", " ", NextLine,
              NoBreakSpace}
    \/ c \in WideSpaces

RECURSIVE TrimLeft(_)
TrimLeft(s) ==
    IF s = <<>> THEN <<>>
    ELSE IF IsSpace(Head(s)) THEN TrimLeft(Tail(s))
    ELSE s

RECURSIVE TrimRight(_)
TrimRight(s) ==
    IF s = <<>> THEN <<>>
    ELSE IF IsSpace(s[Len(s)]) THEN TrimRight(SubSeq(s, 1, Len(s) - 1))
    ELSE s

TrimSpace(s) == TrimRight(TrimLeft(s))

\* --------------------------------------------------------- Client.Update
\* the variant that compares the body as received, without trimming it
UpdateUntrimmed(resp) ==
    IF resp.kind = "transport" THEN [response |-> <<>>, err |-> "request"]
    ELSE IF resp.status # StatusOK THEN [response |-> <<>>, err |-> "status"]
    ELSE IF resp.kind = "readerr" THEN [response |-> <<>>, err |-> "read"]
    ELSE IF resp.body = <<"O", "K">>
    THEN [response |-> resp.body, err |-> "nil"]
    ELSE [response |-> resp.body, err |-> "rejected"]

\* the variant that judges the body before it looks at the status
UpdateBodyFirst(resp) ==
    IF resp.kind = "transport" THEN [response |-> <<>>, err |-> "request"]
    ELSE IF resp.kind = "readerr" THEN [response |-> <<>>, err |-> "read"]
    ELSE IF TrimSpace(resp.body) = <<"O", "K">>
    THEN [response |-> TrimSpace(resp.body), err |-> "nil"]
    ELSE IF resp.status # StatusOK THEN [response |-> <<>>, err |-> "status"]
    ELSE [response |-> TrimSpace(resp.body), err |-> "rejected"]

\* the variant that returns the body of every 200 answer without error
UpdateNoBodyCheck(resp) ==
    IF resp.kind = "transport" THEN [response |-> <<>>, err |-> "request"]
    ELSE IF resp.status # StatusOK THEN [response |-> <<>>, err |-> "status"]
    ELSE IF resp.kind = "readerr" THEN [response |-> <<>>, err |-> "read"]
    ELSE [response |-> TrimSpace(resp.body), err |-> "nil"]

\* Update(ctx, domain, token, ip): one GET, judged by status and trimmed body
Update(resp) ==
    IF resp.kind = "transport" THEN [response |-> <<>>, err |-> "request"]
    ELSE IF resp.status # StatusOK THEN [response |-> <<>>, err |-> "status"]
    ELSE IF resp.kind = "readerr" THEN [response |-> <<>>, err |-> "read"]
    ELSE LET response == TrimSpace(resp.body)
         IN  IF response = OK
             THEN [response |-> response, err |-> "nil"]
             ELSE [response |-> response, err |-> "rejected"]

\* what the HTTP layer can deliver for a request whose context was / was not
\* already cancelled when the request was made
UpdateResponses(ctxDone) ==
    IF ctxDone THEN {TransportError}
    ELSE {TransportError, ReadError} \cup HTTPResponses

\* ------------------------------------------------------------ ip.Fetcher
NoFetch == [err |-> TRUE, ip |-> "-"]
FetchError == [err |-> TRUE, ip |-> ""]
\* results of s.ipFetcher.Fetch(ctx); a context that is already done when
\* the call is made makes every HTTP request of the fetcher fail
FetchResults(ctxDone) ==
    IF ctxDone THEN {FetchError}
    ELSE {FetchError} \cup {[err |-> FALSE, ip |-> x] : x \in IPs}

\* ---------------------------------------------------------------- state
VARIABLES
    interval, domain, token, lastIP,   \* Scheduler fields
    pc,          \* Run: "start", "cycle", "select", "stopped"
    phase,       \* checkAndUpdate: "idle", "fetching", "updating"
    currentIP,   \* checkAndUpdate's local
    active,      \* number of checkAndUpdate calls that have not returned
    cancelled,   \* ctx.Done() is closed
    tickerOn,    \* ticker created and not stopped
    ticks,       \* ticks buffered in ticker.C
    cycleNo,     \* check cycles started so far (saturating at MaxCycle)
    cyc,         \* what the current / last cycle did
    prev         \* what the cycle before it did

\* one call of MultipleFetcher.Fetch
VARIABLES
    URLs,        \* mf.URLs
    fpc,         \* "idle", "entry", "loop", "inflight", "done"
    fi,          \* position of the range loop in URLs (1-based)
    errors,      \* the errors slice: one note per source that gave no IP
    requests,    \* per-source fetches started so far: <<position, ...>>
    fresult      \* what Fetch returned

\* one call of Client.UpdateWithRetry
VARIABLES
    opts,        \* the RetryConfig handed to NewClientWithOptions
    retry,       \* c.retry: [MaxRetries, Backoff]
    rpc,         \* "idle", "entry", "inflight", "backoff", "done"
    attempt,     \* the loop variable
    lastErr,     \* error of the last failed attempt
    tries,       \* error of every c.Update call made, in order
    waits,       \* backoff waits begun: [after, dur, left], time units
    elapsed,     \* time spent in backoff waits
    rresult      \* what UpdateWithRetry returned

\* single calls followed on their own
VARIABLES
    ucalls,      \* Client.Update calls made directly: arguments, answer, result
    hf,          \* one HTTPFetcher.Fetch call: [pc, ctxDone, resp, out]
    cc,          \* UpdateWithRetry calls running at once on one Client
    va           \* one ValidateIPv4 call: [pc, ip, err]

\* main, up to the call of Run
VARIABLES
    mpc,         \* "none", "start", "running", "exit"
    cfg          \* the configuration read by config.Load

fetchVars == <<URLs, fpc, fi, errors, requests, fresult>>

retryVars == <<opts, retry, rpc, attempt, lastErr, tries, waits, elapsed, rresult>>

startVars == <<mpc, cfg>>

callVars == <<ucalls, hf, cc, va, startVars>>

vars == <<interval, domain, token, lastIP, pc, phase, currentIP, active,
          cancelled, tickerOn, ticks, cycleNo, cyc, prev, fetchVars,
          retryVars, callVars>>

config == <<interval, domain, token>>

NoCycle ==
    [kind |-> "none", ctxDone |-> FALSE, lastAtStart |-> "",
     fetchCalls |-> 0, fetch |-> NoFetch, updCalls |-> 0, updIP |-> "", updDomain |-> "",
     updToken |-> "", updCtxDone |-> FALSE, resp |-> NoResp,
     updErr |-> "none"]

NewCycle(kind) ==
    [NoCycle EXCEPT !.kind = kind, !.ctxDone = cancelled,
                    !.lastAtStart = lastIP, !.fetchCalls = 1]

\* no MultipleFetcher.Fetch call is being followed
FetchIdle ==
    /\ URLs = <<>>
    /\ fpc = "idle"
    /\ fi = 0
    /\ errors = <<>>
    /\ requests = <<>>
    /\ fresult = [ip |-> "", err |-> "none"]

\* no UpdateWithRetry call is being followed
RetryIdle ==
    /\ opts = [MaxRetries |-> 0, Backoff |-> <<>>]
    /\ retry = [MaxRetries |-> 0, Backoff |-> <<>>]
    /\ rpc = "idle"
    /\ attempt = 0
    /\ lastErr = "none"
    /\ tries = <<>>
    /\ waits = <<>>
    /\ elapsed = 0
    /\ rresult = [response |-> <<>>, err |-> "none", attempts |-> 0,
                  cause |-> "none"]

\* no single call is being followed
NoSourceCall ==
    [pc |-> "idle", ctxDone |-> FALSE, resp |-> NoResp,
     out |-> [ip |-> <<>>, err |-> "none"]]
NoValidateCall == [pc |-> "idle", ip |-> <<>>, err |-> "none"]
\* main is not being followed
MainIdle ==
    /\ mpc = "none"
    /\ cfg = [domain |-> <<>>, token |-> <<>>, interval |-> 0,
              sources |-> <<>>, logLevel |-> <<>>, logFormat |-> <<>>]
CallsIdle ==
    /\ ucalls = <<>>
    /\ hf = NoSourceCall
    /\ cc = <<>>
    /\ va = NoValidateCall
    /\ MainIdle

\* NewScheduler
SchedInit ==
    /\ interval = 5
    /\ domain = "test-domain"
    /\ token = "test-token"
    /\ lastIP = ""
    /\ pc = "start"
    /\ phase = "idle"
    /\ currentIP = ""
    /\ active = 0
    /\ cancelled = FALSE
    /\ tickerOn = FALSE
    /\ ticks = 0
    /\ cycleNo = 0
    /\ cyc = NoCycle
    /\ prev = NoCycle

Init ==
    /\ SchedInit
    /\ FetchIdle
    /\ RetryIdle
    /\ CallsIdle

\* ------------------------------------------------------- Run's structure
\* Run without the check at start-up
NoInitialCheck == FALSE
\* Run calls checkAndUpdate once before it creates the ticker
InitialCheck == TRUE

\* `go s.checkAndUpdate(ctx)': Run is back at the select at once
RunPcAsync == "select"
\* s.checkAndUpdate(ctx) is a plain call: Run waits for it to return
RunPcDuringCheck == "cycle"

\* a select that never takes the ctx.Done() case
DoneNever(c) == FALSE
\* a select that leaves the loop although nobody cancelled
DoneAlways(c) == TRUE
\* the ctx.Done() case of the select is ready once the context is cancelled
DoneReady(c) == c

\* a ticker channel that queues every tick
TickerSendQueued(n) == n + 1
\* time.Ticker: ticker.C holds one tick, further ticks are dropped
TickerSend(n) == IF n < 1 THEN n + 1 ELSE n

Min(a, b) == IF a < b THEN a ELSE b

\* entry of checkAndUpdate up to the Fetch call
StartCycle(kind) ==
    /\ pc' = RunPcDuringCheck
    /\ phase' = "fetching"
    /\ active' = active + 1
    /\ cycleNo' = Min(cycleNo + 1, MaxCycle)
    /\ prev' = cyc
    /\ cyc' = NewCycle(kind)
    /\ currentIP' = ""

\* checkAndUpdate returns to Run, which (after the first check) creates the
\* ticker and waits in the select
Return ==
    /\ phase' = "idle"
    /\ active' = active - 1
    /\ pc' = "select"
    /\ tickerOn' = TRUE

\* ---------------------------------------------------- checkAndUpdate steps
\* the err check after Fetch left out
FetchFailedIgnored(r) == FALSE
\* if err != nil { ...; return }
FetchFailed(r) == r.err

\* a comparison that never reports a change
ChangedNever(last, cur) == FALSE
\* a comparison that always reports a change
ChangedAlways(last, cur) == TRUE
\* if s.lastIP == currentIP { ...; return }
Changed(last, cur) == last # cur

\* lastIP forgotten when the update fails
NextLastIPCleared(last, cur, err) == IF err # "nil" THEN "" ELSE cur
\* lastIP stored whatever the update returned
NextLastIPAlways(last, cur, err) == cur
\* lastIP never stored
NextLastIPNever(last, cur, err) == last
\* if err != nil { return }; s.lastIP = currentIP
NextLastIP(last, cur, err) == IF err # "nil" THEN last ELSE cur

\* the address of the last update sent again
UpdateIPLast(last, cur) == last
\* s.duckDNSClient.Update(ctx, s.domain, s.token, currentIP)
UpdateIP(last, cur) == cur

\* a failed update repeated within the cycle
UpdateAgainOnError(err) == err # "nil"
\* checkAndUpdate returns after its one Update call, failed or not
UpdateAgain(err) == FALSE

\* a fetcher that answers although the context is done
FetchResultsIgnoringCtx(ctxDone) ==
    {FetchError} \cup {[err |-> FALSE, ip |-> x] : x \in IPs}
\* s.ipFetcher.Fetch(ctx)
FetchCycleResults(ctxDone) == FetchResults(ctxDone)

RunStart ==
    /\ pc = "start"
    /\ IF InitialCheck
       THEN /\ StartCycle("initial")
            /\ UNCHANGED <<tickerOn>>
       ELSE /\ pc' = "select"
            /\ tickerOn' = TRUE
            /\ UNCHANGED <<phase, active, cycleNo, prev, cyc, currentIP>>
    /\ UNCHANGED <<config, lastIP, cancelled, ticks, fetchVars, retryVars,
                   callVars>>

FetchReturn ==
    /\ phase = "fetching"
    /\ \E r \in FetchCycleResults(cyc.ctxDone) :
         IF FetchFailed(r)
         THEN /\ cyc' = [cyc EXCEPT !.fetch = r]
              /\ Return
              /\ UNCHANGED <<currentIP>>
         ELSE IF ~Changed(lastIP, r.ip)
         THEN /\ cyc' = [cyc EXCEPT !.fetch = r]
              /\ currentIP' = r.ip
              /\ Return
         ELSE /\ cyc' = [cyc EXCEPT !.fetch = r,
                                    !.updCalls = @ + 1,
                                    !.updIP = UpdateIP(lastIP, r.ip),
                                    !.updDomain = domain,
                                    !.updToken = token,
                                    !.updCtxDone = cancelled]
              /\ currentIP' = r.ip
              /\ phase' = "updating"
              /\ UNCHANGED <<pc, active, tickerOn>>
    /\ UNCHANGED <<config, lastIP, cancelled, ticks, cycleNo, prev,
                   fetchVars, retryVars,
                   callVars>>

UpdateReturn ==
    /\ phase = "updating"
    /\ \E resp \in UpdateResponses(cyc.updCtxDone) :
         LET u == Update(resp)
         IN  /\ lastIP' = NextLastIP(lastIP, currentIP, u.err)
             /\ IF UpdateAgain(u.err)
                THEN /\ cyc' = [cyc EXCEPT !.resp = resp, !.updErr = u.err,
                                           !.updCalls = @ + 1]
                     /\ UNCHANGED <<pc, phase, active, tickerOn>>
                ELSE /\ cyc' = [cyc EXCEPT !.resp = resp, !.updErr = u.err]
                     /\ Return
    /\ UNCHANGED <<config, currentIP, cancelled, ticks, cycleNo, prev,
                   fetchVars, retryVars,
                   callVars>>

\* the runtime delivers a tick
Tick ==
    /\ tickerOn
    /\ ticks' = TickerSend(ticks)
    /\ UNCHANGED <<config, lastIP, pc, phase, currentIP, active, cancelled,
                   tickerOn, cycleNo, cyc, prev, fetchVars, retryVars,
                   callVars>>

\* select: case <-ticker.C
SelectTick ==
    /\ pc = "select"
    /\ ticks > 0
    /\ ticks' = ticks - 1
    /\ StartCycle("tick")
    /\ UNCHANGED <<config, lastIP, cancelled, tickerOn, fetchVars, retryVars,
                   callVars>>

\* select: case <-ctx.Done(), then the deferred ticker.Stop()
SelectDone ==
    /\ pc = "select"
    /\ DoneReady(cancelled)
    /\ pc' = "stopped"
    /\ tickerOn' = FALSE
    /\ UNCHANGED <<config, lastIP, phase, currentIP, active, cancelled,
                   ticks, cycleNo, cyc, prev, fetchVars, retryVars,
                   callVars>>

\* the signal handler calls cancel()
Cancel ==
    /\ ~cancelled
    /\ cancelled' = TRUE
    /\ UNCHANGED <<config, lastIP, pc, phase, currentIP, active, tickerOn,
                   ticks, cycleNo, cyc, prev, fetchVars, retryVars,
                   callVars>>

Next ==
    \/ RunStart
    \/ FetchReturn
    \/ UpdateReturn
    \/ Tick
    \/ SelectTick
    \/ SelectDone
    \/ Cancel

Spec == Init /\ [][Next]_vars

\* Run is scheduled, the calls of a cycle return, and a select whose
\* ctx.Done() case is ready again and again eventually takes it (the Go
\* select picks among ready cases at random)
FairSpec ==
    /\ Spec
    /\ WF_vars(RunStart)
    /\ WF_vars(FetchReturn)
    /\ WF_vars(UpdateReturn)
    /\ SF_vars(SelectDone)

TypeOK ==
    /\ lastIP \in IPs \cup {""}
    /\ pc \in {"start", "cycle", "select", "stopped"}
    /\ phase \in {"idle", "fetching", "updating"}
    /\ active \in 0..1
    /\ cancelled \in BOOLEAN
    /\ ticks \in 0..1
    /\ cycleNo \in 0..MaxCycle

\* the last started cycle has returned
CycleDone == cycleNo > 0 /\ phase = "idle"

\* the update provider confirmed the update: HTTP 200 and trimmed body "OK"
ConfirmedOK(resp) ==
    /\ resp.kind = "http"
    /\ resp.status = StatusOK
    /\ TrimSpace(resp.body) = OK

\* the cycle's update call returned an error
UpdateFailed(c) == c.updErr \notin {"none", "nil"}

\* the cycle's fetch returned an IP
FetchedIP(c) == c.fetch # NoFetch /\ ~c.fetch.err

\* ------------------------------------------------------------------ C1
\* C1: in a cycle whose fetched IP differs from lastIP the Scheduler runs
\* the retrying update, so a cycle whose update failed without any
\* cancellation has made 1 + maxRetries single-update attempts.
C1_RetryingUpdate ==
    (CycleDone /\ UpdateFailed(cyc) /\ ~cancelled)
        => cyc.updCalls = 1 + DefaultMaxRetries

\* ------------------------------------------------------------------ C2
\* C2: lastIP differs from its value at the start of the cycle only if the
\* cycle's update call got HTTP 200 with trimmed body "OK", and it is then
\* the IP that was sent; after a non-200 status, a transport error or a 200
\* answer with any other body lastIP is unchanged.
C2_LastIPOnlyAfterConfirmedOK ==
    /\ lastIP # cyc.lastAtStart => (ConfirmedOK(cyc.resp) /\ lastIP = cyc.updIP)
    /\ (cyc.resp # NoResp /\ ~ConfirmedOK(cyc.resp)) => lastIP = cyc.lastAtStart

C2_Witness ==
    /\ CycleDone
    /\ cyc.resp.kind = "http"
    /\ cyc.resp.status = StatusOK
    /\ cyc.resp.body = KO
    /\ lastIP = cyc.lastAtStart

\* ------------------------------------------------------------------ C3
\* C3: a cycle whose fetch succeeded with an IP equal to lastIP makes no
\* update call and leaves lastIP unchanged.
C3_UnchangedIPSkipsUpdate ==
    (FetchedIP(cyc) /\ cyc.fetch.ip = cyc.lastAtStart)
        => (cyc.updCalls = 0 /\ cyc.resp = NoResp /\ lastIP = cyc.lastAtStart)

C3_Witness ==
    /\ CycleDone
    /\ FetchedIP(cyc)
    /\ cyc.fetch.ip = cyc.lastAtStart
    /\ cyc.updCalls = 0

\* ------------------------------------------------------------------ C4
\* C4: the first cycle starts with lastIP = "" and, if its fetch returns x,
\* makes exactly one update call, with ip = x; if that update succeeded, a
\* second cycle whose fetch returns the same x makes no update call.
C4_FirstCycleUpdatesSecondSkips ==
    /\ cycleNo = 1 => cyc.lastAtStart = ""
    /\ (cycleNo = 1 /\ CycleDone /\ FetchedIP(cyc))
          => (cyc.updCalls = 1 /\ cyc.updIP = cyc.fetch.ip)
    /\ (cycleNo = 2 /\ CycleDone /\ FetchedIP(prev) /\ prev.updErr = "nil"
          /\ FetchedIP(cyc) /\ cyc.fetch.ip = prev.fetch.ip)
          => cyc.updCalls = 0

C4_Witness ==
    /\ cycleNo = 2
    /\ CycleDone
    /\ prev.kind = "initial"
    /\ prev.lastAtStart = ""
    /\ prev.updCalls = 1
    /\ prev.updErr = "nil"
    /\ FetchedIP(cyc)
    /\ cyc.fetch.ip = prev.fetch.ip
    /\ cyc.updCalls = 0

\* ------------------------------------------------------------------ C5
\* C5: a cycle whose fetch failed makes no update call and changes neither
\* lastIP nor domain, token or interval; Run is not stopped by it: it is
\* back at the select with the ticker running, and leaves only on
\* cancellation.
C5_FetchFailureAbsorbed ==
    (cyc.fetch = FetchError)
        => /\ cyc.updCalls = 0
           /\ cyc.resp = NoResp
           /\ lastIP = cyc.lastAtStart
           /\ interval = 5 /\ domain = "test-domain" /\ token = "test-token"
           /\ phase = "idle"
           /\ pc \in {"select", "stopped"}
           /\ pc = "select" => tickerOn
           /\ pc = "stopped" => cancelled

C5_Witness ==
    /\ cyc.fetch = FetchError
    /\ cyc.lastAtStart \in IPs
    /\ ~cancelled
    /\ pc = "select"
    /\ ticks = 1

\* ------------------------------------------------------------------ C6
\* C6: a failed update leaves lastIP at its previous value, and a following
\* cycle whose fetch returns the same IP makes the update call again, with
\* that IP, starting from the same lastIP.
C6_FailedUpdateIsRetriedNextCycle ==
    /\ UpdateFailed(cyc) => lastIP = cyc.lastAtStart
    /\ (UpdateFailed(prev) /\ FetchedIP(cyc) /\ cyc.fetch.ip = prev.updIP)
          => /\ cyc.lastAtStart = prev.lastAtStart
             /\ cyc.updCalls = 1
             /\ cyc.updIP = prev.updIP

C6_Witness ==
    /\ CycleDone
    /\ prev.updErr = "rejected"
    /\ UpdateFailed(prev)
    /\ FetchedIP(cyc)
    /\ cyc.fetch.ip = prev.updIP
    /\ cyc.updCalls = 1

\* ------------------------------------------------------------------ C7
\* C7: the first cycle is the one Run makes at start, before the ticker
\* exists and so before any tick; a tick-driven cycle is never the first
\* one and starts only when the cycle before it has returned.
C7_InitialCheckBeforeTicks ==
    /\ cycleNo = 0 => (pc = "start" /\ ~tickerOn /\ ticks = 0)
    /\ cycleNo = 1 => cyc.kind = "initial"
    /\ (cyc.kind = "initial" /\ phase # "idle") => (~tickerOn /\ ticks = 0)
    /\ cyc.kind = "tick" => (cycleNo >= 2 /\ prev.kind # "none")
    /\ pc = "select" => cycleNo >= 1

C7_Witness ==
    /\ cycleNo = 2
    /\ phase = "fetching"
    /\ cyc.kind = "tick"
    /\ prev.kind = "initial"

\* ------------------------------------------------------------------ C8
\* C8: once the context is cancelled, Run starts no new check cycle.
C8_NoCycleAfterCancel ==
    [][cancelled => ~(phase = "idle" /\ phase' = "fetching")]_vars

\* ------------------------------------------------------------------ C9
\* C9: after the context is cancelled Run eventually returns, given that
\* the calls of a cycle in flight return.
C9_CancelLeadsToStopped == cancelled ~> (pc = "stopped")

C9_Witness == cancelled /\ pc = "stopped" /\ cycleNo >= 2

\* ----------------------------------------------------------------- C10
\* C10: at most one check cycle is executing; while one executes Run is
\* inside the call and not at the select, and ticks that elapse meanwhile
\* leave at most one tick waiting.
C10_CyclesNeverOverlap ==
    /\ active <= 1
    /\ phase # "idle" => (active = 1 /\ pc = "cycle")
    /\ pc \in {"start", "select", "stopped"} => (active = 0 /\ phase = "idle")
    /\ ticks <= 1

C10_Witness ==
    /\ phase = "updating"
    /\ active = 1
    /\ ticks = 1
    /\ cyc.kind = "tick"

\* ----------------------------------------------------------------- C11
\* C11: Run has returned only if the context is done; fetch failures,
\* update failures and unchanged-IP cycles leave it at the select.
C11_StoppedOnlyByCancellation ==
    /\ pc = "stopped" => cancelled
    /\ (CycleDone /\ ~cancelled) => pc = "select"

C11_Witness ==
    /\ pc = "stopped"
    /\ cancelled
    /\ prev.fetch = FetchError
    /\ UpdateFailed(cyc)

\* ================================================= MultipleFetcher.Fetch
\* longest source list explored
MaxURLs == 3

\* source URLs: empty, whitespace only, and two real endpoints
URLSet ==
    {<<>>, <<" ">>, <<"\f", NoBreakSpace, IdeographicSpace>>, <<"a">>, <<"b">>}
URLLists == UNION {[1..n -> URLSet] : n \in 0..MaxURLs}

\* what HTTPFetcher.Fetch(ctx) can return for one source; with a context
\* that is already done the request fails without reaching the source
SourceResults(ctxDone) ==
    IF ctxDone THEN {[ip |-> "", err |-> "request"]}
    ELSE {[ip |-> "", err |-> e] :
              e \in {"request", "status", "empty", "invalid"}}
         \cup {[ip |-> x, err |-> "nil"] : x \in IPs}

NoRes == [ip |-> "", err |-> "pending"]

\* a list of blank entries taken as an empty one
NoSourcesOrAllBlank(urls) == \A i \in 1..Len(urls) : TrimSpace(urls[i]) = <<>>
\* a list that is never reported as empty
NoSourcesNever(urls) == FALSE
\* if len(mf.URLs) == 0
NoSources(urls) == Len(urls) = 0

\* only the empty string counts as blank
IsBlankUntrimmed(url) == url = <<>>
\* if strings.TrimSpace(url) == ""
IsBlank(url) == TrimSpace(url) = <<>>

\* a success that does not end the loop
SucceededNever(r) == FALSE
\* if err == nil { return ip, nil }
Succeeded(r) == r.err = "nil"

\* the loop steps over the source after a failed one
NextPosSkip(i) == i + 2
\* range: the next element of mf.URLs
NextPos(i) == i + 1

\* errors = []string{note}: earlier notes are lost
AppendNoteOverwrite(errs, note) == <<note>>
\* errors = append(errors, note)
AppendNote(errs, note) == Append(errs, note)

\* fmt.Sprintf("[%d] URLが空です", i)
EmptyNote(pos) == [index |-> pos - 1, kind |-> "url_empty", url |-> <<>>,
                   err |-> "none"]
\* fmt.Sprintf("[%d] %s: %v", i, url, err)
FailedNote(pos, url, e) == [index |-> pos - 1, kind |-> "failed",
                            url |-> url, err |-> e]

\* the loop from position i on, up to the next per-source fetch or the end:
\* blank URLs are noted and stepped over
RECURSIVE SkipBlank(_, _, _)
SkipBlank(urls, i, errs) ==
    IF i > Len(urls) THEN [i |-> i, errors |-> errs]
    ELSE IF IsBlank(urls[i])
    THEN SkipBlank(urls, NextPos(i), AppendNote(errs, EmptyNote(i)))
    ELSE [i |-> i, errors |-> errs]

\* continue the loop at position i with the notes errs, reqs being the
\* per-source fetches made so far
Proceed(i, errs, reqs) ==
    LET s == SkipBlank(URLs, i, errs)
    IN  /\ fi' = s.i
        /\ errors' = s.errors
        /\ IF s.i > Len(URLs)
           THEN /\ fpc' = "done"
                /\ fresult' = [ip |-> "", err |-> "all_failed"]
                /\ requests' = reqs
           ELSE /\ fpc' = "inflight"
                /\ requests' = Append(reqs,
                       [pos |-> s.i, ctxDone |-> cancelled, res |-> NoRes])
                /\ UNCHANGED fresult

schedVars == <<interval, domain, token, lastIP, pc, phase, currentIP, active,
               tickerOn, ticks, cycleNo, cyc, prev>>

FetchInit ==
    /\ SchedInit
    /\ RetryIdle
    /\ CallsIdle
    /\ URLs \in URLLists
    /\ fpc = "entry"
    /\ fi = 0
    /\ errors = <<>>
    /\ requests = <<>>
    /\ fresult = [ip |-> "", err |-> "none"]

\* Fetch is called: the length check, then the loop up to the first
\* per-source fetch
FetchCall ==
    /\ fpc = "entry"
    /\ IF NoSources(URLs)
       THEN /\ fpc' = "done"
            /\ fresult' = [ip |-> "", err |-> "no_sources"]
            /\ UNCHANGED <<fi, errors, requests>>
       ELSE Proceed(1, <<>>, <<>>)
    /\ UNCHANGED <<URLs, cancelled, schedVars, retryVars, callVars>>

\* fetcher.Fetch(ctx) of the current source returns
FetchSourceReturn ==
    /\ fpc = "inflight"
    /\ \E r \in SourceResults(requests[Len(requests)].ctxDone) :
         LET reqs == [requests EXCEPT ![Len(requests)].res = r]
         IN  IF Succeeded(r)
             THEN /\ fpc' = "done"
                  /\ fresult' = [ip |-> r.ip, err |-> "nil"]
                  /\ requests' = reqs
                  /\ UNCHANGED <<fi, errors>>
             ELSE Proceed(NextPos(fi),
                          AppendNote(errors, FailedNote(fi, URLs[fi], r.err)),
                          reqs)
    /\ UNCHANGED <<URLs, cancelled, schedVars, retryVars, callVars>>

FetchNext ==
    \/ FetchCall
    \/ FetchSourceReturn
    \/ Cancel

FetchSpec == FetchInit /\ [][FetchNext]_vars

\* positions of the per-source fetches, in the order they were started
ReqPos == [j \in 1..Len(requests) |-> requests[j].pos]

\* the positions 1..k of URLs that hold a non-blank URL, ascending
NonBlankUpTo(k) ==
    SelectSeq([p \in 1..k |-> p], LAMBDA p : TrimSpace(URLs[p]) # <<>>)

FetchDone == fpc = "done"

\* ----------------------------------------------------------------- C12
\* C12: a per-source fetch that succeeded is the last one of the call, and
\* the call has returned with exactly its IP.
C12_FirstSuccessReturns ==
    /\ \A j \in 1..Len(requests) :
         requests[j].res.err = "nil"
            => /\ j = Len(requests)
               /\ FetchDone
               /\ fresult = [ip |-> requests[j].res.ip, err |-> "nil"]
    /\ (FetchDone /\ fresult.err = "nil")
          => (requests # <<>> /\ requests[Len(requests)].res.err = "nil")

C12_Witness ==
    /\ FetchDone
    /\ fresult.err = "nil"
    /\ Len(URLs) = 3
    /\ requests[Len(requests)].pos = 1
    /\ TrimSpace(URLs[2]) # <<>>
    /\ TrimSpace(URLs[3]) # <<>>

\* ----------------------------------------------------------------- C13
\* C13: the per-source fetches made are exactly the non-blank sources up to
\* the current position, in list order and each once; on success the
\* result is the IP of the source at that position.
C13_AttemptsInListOrder ==
    /\ (fpc \in {"inflight", "done"} /\ URLs # <<>>)
          => ReqPos = NonBlankUpTo(Min(fi, Len(URLs)))
    /\ (FetchDone /\ fresult.err = "nil")
          => /\ requests[Len(requests)].pos = fi
             /\ fresult.ip = requests[Len(requests)].res.ip

C13_Witness ==
    /\ FetchDone
    /\ fresult = [ip |-> "1.2.3.4", err |-> "nil"]
    /\ ReqPos = <<1, 2, 3>>
    /\ requests[1].res.err = "status"
    /\ requests[2].res.err = "status"

\* ----------------------------------------------------------------- C14
\* C14: with an empty source list Fetch returns the no-sources error and
\* starts no per-source fetch.
C14_EmptyListFailsAtOnce ==
    URLs = <<>>
        => /\ requests = <<>>
           /\ errors = <<>>
           /\ fpc \in {"entry", "done"}
           /\ FetchDone => fresult = [ip |-> "", err |-> "no_sources"]

C14_Witness == URLs = <<>> /\ FetchDone /\ fresult.err = "no_sources"

\* ----------------------------------------------------------------- C15
\* C15: no per-source fetch is ever made for a blank or whitespace-only
\* URL; every such URL the loop has passed has its own "URL is empty" note,
\* and the loop goes on to the sources after it.
C15_BlankURLsSkipped ==
    /\ \A j \in 1..Len(requests) : TrimSpace(URLs[requests[j].pos]) # <<>>
    /\ \A p \in 1..Len(URLs) :
         (fpc \in {"inflight", "done"} /\ p < fi /\ TrimSpace(URLs[p]) = <<>>)
            => \E k \in 1..Len(errors) :
                 errors[k].index = p - 1 /\ errors[k].kind = "url_empty"
    /\ (fpc = "inflight" /\ URLs # <<>>) => TrimSpace(URLs[fi]) # <<>>

C15_Witness ==
    /\ FetchDone
    /\ Len(URLs) = 3
    /\ URLs[1] = <<" ">>
    /\ URLs[2] = <<>>
    /\ ReqPos = <<3>>
    /\ fresult = [ip |-> "5.6.7.8", err |-> "nil"]
    /\ Len(errors) = 2

\* ----------------------------------------------------------------- C16
\* C16: when no source gave an IP, Fetch returns an error and no IP, and
\* the notes are one per source in list order, each with the source's
\* index and, for a non-blank source, its URL and the error its fetch
\* returned.
C16_AllFailedDiagnostics ==
    /\ (FetchDone /\ URLs # <<>>
          /\ \A j \in 1..Len(requests) : requests[j].res.err # "nil")
          => fresult = [ip |-> "", err |-> "all_failed"]
    /\ (FetchDone /\ fresult.err = "all_failed")
          => /\ Len(errors) = Len(URLs)
             /\ \A p \in 1..Len(URLs) :
                  /\ errors[p].index = p - 1
                  /\ IF TrimSpace(URLs[p]) = <<>>
                     THEN errors[p].kind = "url_empty"
                     ELSE /\ errors[p].kind = "failed"
                          /\ errors[p].url = URLs[p]
                          /\ \E k \in 1..Len(requests) :
                               /\ requests[k].pos = p
                               /\ requests[k].res.err = errors[p].err
                               /\ errors[p].err # "nil"

C16_Witness ==
    /\ FetchDone
    /\ fresult.err = "all_failed"
    /\ Len(URLs) = 3
    /\ errors[1].err = "status"
    /\ errors[2].kind = "url_empty"
    /\ errors[3].err = "invalid"

\* ----------------------------------------------------------------- C17
\* C17: once the context is cancelled during a call, no per-source fetch
\* is started for a source later in the list than the one in flight.
C17_CancelShortCircuits ==
    [][(cancelled /\ fpc = "inflight") => Len(requests') = Len(requests)]_vars

\* ================================================ Client.UpdateWithRetry
\* largest MaxRetries a caller asks for
MaxRetriesIn == 2

\* DefaultBackoff, in seconds
DefaultBackoff == <<1, 2, 4>>

\* retry configurations handed to NewClientWithOptions
BackoffLists == {<<>>, <<1>>, <<1, 2>>, <<2, 1>>}
RetryConfigs == [MaxRetries : 0..MaxRetriesIn, Backoff : BackoffLists]

\* NewClient: the default retry policy
NewClient == [MaxRetries |-> DefaultMaxRetries, Backoff |-> DefaultBackoff]

\* a constructor that keeps the policy as given
NewClientWithOptionsAsGiven(o) == o
\* NewClientWithOptions: zero values are replaced by the defaults
NewClientWithOptions(o) ==
    [MaxRetries |-> IF o.MaxRetries <= 0 THEN DefaultMaxRetries
                    ELSE o.MaxRetries,
     Backoff |-> IF Len(o.Backoff) = 0 THEN DefaultBackoff ELSE o.Backoff]

\* the first attempt counted among the retries
MaxAttemptsNoFirst(r) == r.MaxRetries
\* maxAttempts := c.retry.MaxRetries + 1
MaxAttempts(r) == r.MaxRetries + 1

\* the backoff index taken as the attempt number itself
BackoffDurationShifted(r, n) ==
    IF n >= Len(r.Backoff) THEN r.Backoff[Len(r.Backoff)]
    ELSE r.Backoff[n + 1]
\* backoffIndex := attempt - 1, clamped to the last element (0-based in the
\* code, 1-based here)
BackoffDuration(r, n) ==
    IF n - 1 >= Len(r.Backoff) THEN r.Backoff[Len(r.Backoff)]
    ELSE r.Backoff[n]

\* an Update result never taken as success
AttemptSucceededNever(u) == FALSE
\* if err == nil { return response, nil }
AttemptSucceeded(u) == u.err = "nil"

\* a timer that is ready as soon as it is created
TimerFiredAtOnce(left) == TRUE
\* <-time.After(backoffDuration) is ready when the duration has passed
TimerFired(left) == left = 0

\* a loop that starts every attempt without looking at the context
CtxCheckedNever(c) == FALSE
\* select { case <-ctx.Done(): return ...; default: } before each attempt
CtxChecked(c) == c

\* the first failure kept as lastErr
LastErrFirst(old, err) == IF old = "none" THEN err ELSE old
\* lastErr = err
LastErr(old, err) == err

\* a cancelled backoff reported as exhausted retries
ErrCancelledBackoffAsExhausted == "exhausted"
\* the error returned by case <-ctx.Done() of the backoff select
ErrCancelledBackoff == "cancelled_backoff"

RetryReturn(response, err, cause) ==
    /\ rpc' = "done"
    /\ rresult' = [response |-> response, err |-> err,
                   attempts |-> MaxAttempts(retry), cause |-> cause]

\* top of the loop for attempt n: the loop condition, the ctx.Done() check,
\* then the c.Update call
BeginAttempt(n, cause) ==
    /\ attempt' = n
    /\ IF n > MaxAttempts(retry)
       THEN /\ RetryReturn(<<>>, "exhausted", cause)
            /\ UNCHANGED tries
       ELSE IF CtxChecked(cancelled)
       THEN /\ RetryReturn(<<>>, "cancelled", "ctx")
            /\ UNCHANGED tries
       ELSE /\ rpc' = "inflight"
            /\ tries' = Append(tries, "pending")
            /\ UNCHANGED rresult

RetryInit ==
    /\ SchedInit
    /\ FetchIdle
    /\ CallsIdle
    /\ opts \in RetryConfigs
    /\ retry = NewClientWithOptions(opts)
    /\ rpc = "entry"
    /\ attempt = 0
    /\ lastErr = "none"
    /\ tries = <<>>
    /\ waits = <<>>
    /\ elapsed = 0
    /\ rresult = [response |-> <<>>, err |-> "none", attempts |-> 0,
                  cause |-> "none"]

\* UpdateWithRetry is called
RetryCall ==
    /\ rpc = "entry"
    /\ BeginAttempt(1, "none")
    /\ UNCHANGED <<opts, retry, lastErr, waits, elapsed, cancelled,
                   schedVars, fetchVars,
                   callVars>>

\* c.Update of the current attempt returns
UpdateAttemptReturn ==
    /\ rpc = "inflight"
    /\ \E resp \in UpdateResponses(FALSE) :
         LET u == Update(resp)
             done == [tries EXCEPT ![Len(tries)] = u.err]
         IN  /\ tries' = done
             /\ IF AttemptSucceeded(u)
                THEN /\ rpc' = "done"
                     /\ rresult' = [response |-> u.response, err |-> "nil",
                                    attempts |-> attempt, cause |-> "none"]
                     /\ UNCHANGED <<attempt, lastErr, waits>>
                ELSE /\ lastErr' = LastErr(lastErr, u.err)
                     /\ IF attempt < MaxAttempts(retry)
                        THEN /\ rpc' = "backoff"
                             /\ waits' = Append(waits,
                                   [after |-> attempt,
                                    dur |-> BackoffDuration(retry, attempt),
                                    left |-> BackoffDuration(retry, attempt)])
                             /\ UNCHANGED <<attempt, rresult>>
                        ELSE /\ attempt' = attempt + 1
                             /\ RetryReturn(<<>>, "exhausted", lastErr')
                             /\ UNCHANGED waits
    /\ UNCHANGED <<opts, retry, elapsed, cancelled, schedVars, fetchVars,
                   callVars>>

\* one time unit of the current backoff wait passes
TimePasses ==
    /\ rpc = "backoff"
    /\ waits[Len(waits)].left > 0
    /\ waits' = [waits EXCEPT ![Len(waits)].left = @ - 1]
    /\ elapsed' = elapsed + 1
    /\ UNCHANGED <<opts, retry, rpc, attempt, lastErr, tries, rresult,
                   cancelled, schedVars, fetchVars,
                   callVars>>

\* select: case <-time.After(backoffDuration), then the next iteration
BackoffElapsed ==
    /\ rpc = "backoff"
    /\ TimerFired(waits[Len(waits)].left)
    /\ BeginAttempt(attempt + 1, lastErr)
    /\ UNCHANGED <<opts, retry, lastErr, waits, elapsed, cancelled,
                   schedVars, fetchVars,
                   callVars>>

\* select: case <-ctx.Done() during the backoff wait
BackoffCancelled ==
    /\ rpc = "backoff"
    /\ cancelled
    /\ RetryReturn(<<>>, ErrCancelledBackoff, "ctx")
    /\ UNCHANGED <<opts, retry, attempt, lastErr, tries, waits, elapsed,
                   cancelled, schedVars, fetchVars,
                   callVars>>

RetryNext ==
    \/ RetryCall
    \/ UpdateAttemptReturn
    \/ TimePasses
    \/ BackoffElapsed
    \/ BackoffCancelled
    \/ Cancel

RetrySpec == RetryInit /\ [][RetryNext]_vars

RetryDone == rpc = "done"

\* total duration of the first k backoff waits
RECURSIVE WaitedFor(_)
WaitedFor(k) == IF k <= 0 THEN 0 ELSE waits[k].dur + WaitedFor(k - 1)

\* ----------------------------------------------------------------- C18
\* C18: one call of UpdateWithRetry makes at most 1 + MaxRetries update
\* attempts; a call that returned without success while the context was
\* never cancelled has made exactly 1 + MaxRetries attempts, all failed,
\* and returns the retries-exhausted error.
C18_AtMostMaxAttempts ==
    /\ Len(tries) <= 1 + retry.MaxRetries
    /\ (RetryDone /\ ~cancelled /\ rresult.err # "nil")
          => /\ rresult.err = "exhausted"
             /\ Len(tries) = 1 + retry.MaxRetries
             /\ \A j \in 1..Len(tries) : tries[j] \notin {"nil", "pending"}

C18_Witness ==
    /\ RetryDone
    /\ ~cancelled
    /\ retry.MaxRetries = 2
    /\ Len(tries) = 3
    /\ rresult.err = "exhausted"

\* ----------------------------------------------------------------- C19
\* C19: a successful attempt is the last attempt of the call: the call has
\* returned "OK" without error after exactly that many attempts, all
\* earlier ones having failed; a success at the first attempt comes with
\* no backoff wait at all.
C19_SuccessEndsTheCall ==
    /\ \A j \in 1..Len(tries) :
         tries[j] = "nil"
            => /\ j = Len(tries)
               /\ RetryDone
               /\ rresult.err = "nil"
               /\ rresult.response = OK
               /\ rresult.attempts = j
    /\ (RetryDone /\ rresult.err = "nil")
          => /\ tries # <<>>
             /\ tries[Len(tries)] = "nil"
             /\ Len(tries) <= 1 + retry.MaxRetries
             /\ Len(waits) = Len(tries) - 1
    /\ (RetryDone /\ tries = <<"nil">>) => (waits = <<>> /\ elapsed = 0)

C19_Witness ==
    /\ RetryDone
    /\ rresult.err = "nil"
    /\ retry.MaxRetries = 2
    /\ tries = <<"status", "rejected", "nil">>

\* ----------------------------------------------------------------- C20
\* C20: wait j follows failed attempt j, and attempt j + 1 exists only if
\* wait j has run to its end; a call cancelled in a wait makes no further
\* attempt; so the time spent waiting is at least the sum of the backoff
\* durations before the latest attempt, and a success at attempt 2 has
\* waited at least the first backoff duration.
C20_BackoffBeforeNextAttempt ==
    /\ \A j \in 1..Len(waits) :
         /\ waits[j].after = j
         /\ tries[j] \notin {"nil", "pending"}
         /\ Len(tries) > j => waits[j].left = 0
    /\ Len(tries) >= 1 => elapsed >= WaitedFor(Len(tries) - 1)
    /\ rresult.err = "cancelled_backoff" => Len(tries) = Len(waits)
    /\ (rresult.err = "nil" /\ Len(tries) = 2) => elapsed >= retry.Backoff[1]

C20_Witness ==
    /\ RetryDone
    /\ rresult.err = "nil"
    /\ Len(tries) = 2
    /\ retry.Backoff = <<2, 1>>
    /\ elapsed = 2

\* ----------------------------------------------------------------- C21
\* C21: a step taken at the top of the loop (on entry, or after a backoff
\* wait) while the context is cancelled starts no attempt: the call returns
\* a cancellation error; a call entered with a cancelled context returns
\* with zero attempts made.
C21_CancelCheckedBeforeAttempt ==
    [][/\ (cancelled /\ rpc \in {"entry", "backoff"} /\ rpc' # rpc)
          => /\ tries' = tries
             /\ rpc' = "done"
             /\ rresult'.err \in {"cancelled", "cancelled_backoff"}
       /\ (cancelled /\ rpc = "entry" /\ rpc' # rpc)
          => /\ tries' = <<>>
             /\ rresult'.err = "cancelled"]_vars

C21_Witness ==
    /\ RetryDone
    /\ rresult.err = "cancelled"
    /\ Len(tries) = 1
    /\ waits[1].left = 0

\* ----------------------------------------------------------------- C22
\* C22: the wait begun after failed attempt n lasts Backoff[n-1] (0-based)
\* when the list is that long, otherwise the last element of the list; with
\* a one-element list every wait is that element.
C22_BackoffClamped ==
    /\ \A n \in 1..Len(waits) :
         /\ n < 1 + retry.MaxRetries
         /\ n <= Len(retry.Backoff) => waits[n].dur = retry.Backoff[n]
         /\ n > Len(retry.Backoff)
               => waits[n].dur = retry.Backoff[Len(retry.Backoff)]
    /\ Len(retry.Backoff) = 1
          => \A n \in 1..Len(waits) : waits[n].dur = retry.Backoff[1]

C22_Witness ==
    /\ retry.MaxRetries = 3
    /\ retry.Backoff = <<1>>
    /\ Len(waits) = 3
    /\ waits[3].dur = 1

\* ----------------------------------------------------------------- C23
\* C23 as stated: a call that leaves a backoff wait while the context is
\* cancelled starts no further attempt and returns the 'cancelled during
\* backoff' error.
C23_CancelledDuringBackoff ==
    [][(cancelled /\ rpc = "backoff" /\ rpc' # rpc)
          => /\ tries' = tries
             /\ rpc' = "done"
             /\ rresult'.err = "cancelled_backoff"]_vars

\* C23 amended: a call that leaves a backoff wait while the context is
\* cancelled starts no further attempt and returns a cancellation error,
\* never the retries-exhausted error: the 'cancelled during backoff' error
\* whenever the timer has not fired yet; once the timer has fired as well,
\* either that error or the 'update cancelled' error of the check before
\* the next attempt.
C23_CancelledBackoffAborts ==
    [][(cancelled /\ rpc = "backoff" /\ rpc' # rpc)
          => /\ tries' = tries
             /\ rpc' = "done"
             /\ rresult'.err \in {"cancelled_backoff", "cancelled"}
             /\ waits[Len(waits)].left > 0
                   => rresult'.err = "cancelled_backoff"]_vars

C23_Witness ==
    /\ RetryDone
    /\ rresult.err = "cancelled_backoff"
    /\ Len(tries) = 2
    /\ Len(waits) = 2
    /\ waits[2].left > 0

\* ----------------------------------------------------------------- C24
\* C24: a call that returns the retries-exhausted error has made exactly
\* 1 + MaxRetries attempts with one wait fewer (none after the last
\* attempt); the error carries the attempt count 1 + MaxRetries and wraps
\* the error of the last attempt.
C24_ExhaustedWrapsLastError ==
    rresult.err = "exhausted"
       => /\ RetryDone
          /\ Len(tries) = 1 + retry.MaxRetries
          /\ Len(waits) = Len(tries) - 1
          /\ \A j \in 1..Len(waits) : waits[j].left = 0
          /\ rresult.attempts = 1 + retry.MaxRetries
          /\ rresult.cause = tries[Len(tries)]
          /\ rresult.cause \notin {"nil", "pending", "none", "ctx"}

C24_Witness ==
    /\ RetryDone
    /\ rresult.err = "exhausted"
    /\ tries = <<"status", "request", "rejected">>
    /\ rresult.cause = "rejected"

\* ========================================= Client.Update, called directly
\* calls of Update followed
MaxCalls == 2

\* bodies a server may answer with
UpdateBodies ==
    Bodies \cup {<<"O", "K", " ">>, <<"\t", "O", "K", "\r", "\n">>,
                 <<"O", " ", "K">>, <<"O">>, <<"o", "k">>, <<"K", "O", "\n">>,
                 <<"O", "K", "O", "K">>, <<" ">>, <<"O", "K", "\f">>,
                 <<NoBreakSpace, "O", "K", NextLine, VerticalTab>>,
                 <<LineSeparator, "O", "K", IdeographicSpace>>,
                 <<"O", "K", ZeroWidthSpace>>}

UpdateAnswers(ctxDone) ==
    IF ctxDone THEN UpdateResponses(ctxDone)
    ELSE UpdateResponses(ctxDone)
            \cup [kind : {"http"}, status : Statuses, body : UpdateBodies]

\* const defaultBaseURL; a URL is a sequence of pieces of text
defaultBaseURL == <<"https://www.duckdns.org/update">>

\* the Client that NewClient returns (the httpClient field is the HTTP layer
\* that UpdateAnswers stands for)
NewClientFields == [baseURL |-> defaultBaseURL, retry |-> NewClient]

\* url.Values.Encode of the three parameters set: sorted by key; domain,
\* token and address of this model are made of letters, digits, "-" and
\* ".", which the query escaping leaves as they are
Encode(dom, tok, ip) == <<"domains=", dom, "&ip=", ip, "&token=", tok>>

\* the variant that builds the URL in the Client: c.baseURL += "?" + ...
BuildRequestInPlace(c, dom, tok, ip) ==
    LET reqURL == c.baseURL \o <<"?">> \o Encode(dom, tok, ip)
    IN  [client |-> [c EXCEPT !.baseURL = reqURL], url |-> reqURL]
\* reqURL := c.baseURL + "?" + params.Encode(): the URL of the request is a
\* local, the Client is as it was
BuildRequest(c, dom, tok, ip) ==
    LET reqURL == c.baseURL \o <<"?">> \o Encode(dom, tok, ip)
    IN  [client |-> c, url |-> reqURL]

\* the Client as the calls made so far have left it
CurrentClient ==
    IF ucalls = <<>> THEN NewClientFields
    ELSE ucalls[Len(ucalls)].clientAfter

UpdateInit == Init

\* a call that waits in c.httpClient.Do / io.ReadAll
UpdatePending == [response |-> <<>>, err |-> "pending"]
UpdateInFlight == ucalls # <<>> /\ ucalls[Len(ucalls)].out = UpdatePending

\* client.Update(ctx, domain, token, ip) is called: the request is built and
\* sent, the caller waits for the answer
UpdateCall ==
    /\ Len(ucalls) < MaxCalls
    /\ ~UpdateInFlight
    /\ \E ip \in IPs :
         LET b == BuildRequest(CurrentClient, domain, token, ip)
         IN  ucalls' = Append(ucalls,
                    [domain |-> domain, token |-> token, ip |-> ip,
                     client |-> CurrentClient, url |-> b.url,
                     clientAfter |-> b.client,
                     ctxDone |-> cancelled, resp |-> NoResp,
                     out |-> UpdatePending])
    /\ UNCHANGED <<config, lastIP, pc, phase, currentIP, active, cancelled,
                   tickerOn, ticks, cycleNo, cyc, prev, fetchVars, retryVars,
                   hf, cc, va, startVars>>

\* Do / ReadAll come back and Update returns; a context cancelled while the
\* call waited makes the request fail or comes too late to matter. What
\* Update assigns to are its locals: nothing of the Scheduler is in its reach
UpdateCallReturn ==
    /\ UpdateInFlight
    /\ LET n == Len(ucalls)
           c == ucalls[n]
       IN  \E resp \in UpdateAnswers(c.ctxDone) :
             ucalls' = [ucalls EXCEPT ![n].resp = resp, ![n].out = Update(resp)]
    /\ UNCHANGED <<config, lastIP, pc, phase, currentIP, active, cancelled,
                   tickerOn, ticks, cycleNo, cyc, prev, fetchVars, retryVars,
                   hf, cc, va, startVars>>

UpdateNext ==
    \/ UpdateCall
    \/ UpdateCallReturn
    \/ Cancel

UpdateSpec == UpdateInit /\ [][UpdateNext]_vars

\* the server answered 200 with a body that trims to "OK"
AnsweredOK(c) ==
    /\ c.resp.kind = "http"
    /\ c.resp.status = StatusOK
    /\ TrimSpace(c.resp.body) = OK

\* ----------------------------------------------------------------- C25
\* C25 as stated: Update takes a 200 answer as success only if its trimmed
\* body is exactly "OK"; for every other body, "KO" and the empty body
\* included, it returns an error together with the raw response text, the
\* body as the server sent it.
C25_RawTextReturned ==
    \A j \in 1..Len(ucalls) :
       LET c == ucalls[j]
       IN  /\ (c.resp.kind = "http" /\ c.resp.status = StatusOK)
                => /\ TrimSpace(c.resp.body) = OK => c.out.err = "nil"
                   /\ TrimSpace(c.resp.body) # OK
                        => /\ c.out.err = "rejected"
                           /\ c.out.response = c.resp.body
           /\ c.out.err = "nil" => AnsweredOK(c)

\* C25, amended: Update takes a 200 answer as success only if its trimmed
\* body is exactly "OK"; for every other body, "KO" and the empty body
\* included, it returns an error together with the response text with the
\* surrounding white space cut off, which for a body such as "KO\n" is not
\* the body as the server sent it.
C25_OnlyTrimmedOKSucceeds ==
    \A j \in 1..Len(ucalls) :
       LET c == ucalls[j]
       IN  /\ (c.resp.kind = "http" /\ c.resp.status = StatusOK)
                => /\ TrimSpace(c.resp.body) = OK
                        => c.out = [response |-> OK, err |-> "nil"]
                   /\ TrimSpace(c.resp.body) # OK
                        => /\ c.out.err = "rejected"
                           /\ c.out.response = TrimSpace(c.resp.body)
                   /\ c.resp.body = <<" ", "O", "K", "\n">>
                        => c.out = [response |-> OK, err |-> "nil"]
                   /\ c.resp.body = <<LineSeparator, "O", "K", IdeographicSpace>>
                        => c.out = [response |-> OK, err |-> "nil"]
                   /\ c.resp.body = <<"O", "K", ZeroWidthSpace>>
                        => c.out = [response |-> c.resp.body,
                                    err |-> "rejected"]
                   /\ c.resp.body \in {<<"O", "K", "\f">>,
                                       <<NoBreakSpace, "O", "K", NextLine,
                                         VerticalTab>>}
                        => c.out = [response |-> OK, err |-> "nil"]
                   /\ c.resp.body \in {KO, <<"K", "O", "\n">>}
                        => c.out = [response |-> KO, err |-> "rejected"]
                   /\ c.resp.body \in {<<>>, <<" ">>, <<"\n">>}
                        => c.out = [response |-> <<>>, err |-> "rejected"]
           /\ c.out.err = "nil" => AnsweredOK(c)

C25_Witness ==
    /\ Len(ucalls) = 2
    /\ ucalls[1].resp = [kind |-> "http", status |-> StatusOK,
                         body |-> <<"K", "O", "\n">>]
    /\ ucalls[1].out = [response |-> KO, err |-> "rejected"]
    /\ ucalls[2].resp.body = <<"\t", "O", "K", "\r", "\n">>
    /\ ucalls[2].out.err = "nil"

\* ----------------------------------------------------------------- C26
\* C26: on a status other than 200 Update returns the status error with an
\* empty response text whatever the body is, "OK" included; the
\* rejected-body error comes only with status 200.
C26_StatusBeforeBody ==
    \A j \in 1..Len(ucalls) :
       LET c == ucalls[j]
       IN  /\ (c.resp.kind = "http" /\ c.resp.status # StatusOK)
                => c.out = [response |-> <<>>, err |-> "status"]
           /\ c.out.err = "rejected"
                => (c.resp.kind = "http" /\ c.resp.status = StatusOK)
           /\ c.out.err = "status" => c.resp.status # StatusOK

C26_Witness ==
    /\ Len(ucalls) = 1
    /\ ucalls[1].resp = [kind |-> "http",
                         status |-> StatusInternalServerError, body |-> OK]
    /\ ucalls[1].out = [response |-> <<>>, err |-> "status"]

\* ----------------------------------------------------------------- C29
\* C29: two Update calls with the same domain, token and address send the
\* same request, the default URL with these three parameters, and when both
\* are answered "OK" both succeed; a call leaves the Client as NewClient
\* made it, and no call of Update, started or returned, changes the
\* Scheduler's state, lastIP included.
C29_RepeatedUpdateSucceeds ==
    /\ \A j, k \in 1..Len(ucalls) :
         (/\ j < k
          /\ ucalls[j].domain = ucalls[k].domain
          /\ ucalls[j].token = ucalls[k].token
          /\ ucalls[j].ip = ucalls[k].ip)
            => /\ ucalls[k].url = ucalls[j].url
               /\ (AnsweredOK(ucalls[j]) /\ AnsweredOK(ucalls[k]))
                     => /\ ucalls[j].out = [response |-> OK, err |-> "nil"]
                        /\ ucalls[k].out = [response |-> OK, err |-> "nil"]
    /\ \A j \in 1..Len(ucalls) :
         /\ ucalls[j].url = defaultBaseURL \o
                <<"?", "domains=", ucalls[j].domain, "&ip=", ucalls[j].ip,
                  "&token=", ucalls[j].token>>
         /\ ucalls[j].client = NewClientFields
         /\ ucalls[j].clientAfter = NewClientFields
    /\ lastIP = ""
    /\ currentIP = ""
    /\ pc = "start"
    /\ phase = "idle"
    /\ cycleNo = 0
    /\ cyc = NoCycle

C29_Witness ==
    /\ Len(ucalls) = 2
    /\ ucalls[1].ip = "1.2.3.4"
    /\ ucalls[2].ip = "1.2.3.4"
    /\ ucalls[1].resp = [kind |-> "http", status |-> StatusOK, body |-> OK]
    /\ ucalls[2].resp = ucalls[1].resp
    /\ ucalls[1].out.err = "nil"
    /\ ucalls[2].out.err = "nil"
    /\ ucalls[2].url = ucalls[1].url
    /\ lastIP = ""

\* ----------------------------------------------------------------- C27
\* C27: an UpdateWithRetry call that returns without success at a moment
\* when the context is cancelled (be it before an attempt, with an attempt
\* in flight, or in a backoff wait) returns a cancellation error, not the
\* retries-exhausted error.
C27_CancellationNeverSwallowed ==
    [][(/\ cancelled
        /\ rpc \in {"entry", "inflight", "backoff"}
        /\ rpc' = "done"
        /\ rresult'.err # "nil")
          => rresult'.err \in {"cancelled", "cancelled_backoff"}]_vars

\* ====================================================== HTTPFetcher.Fetch
Digits == {"0", "1", "2", "3", "4", "5", "6", "7", "8", "9"}

DigitVal(c) ==
    CASE c = "0" -> 0 [] c = "1" -> 1 [] c = "2" -> 2 [] c = "3" -> 3
      [] c = "4" -> 4 [] c = "5" -> 5 [] c = "6" -> 6 [] c = "7" -> 7
      [] c = "8" -> 8 [] c = "9" -> 9

\* the parts of s between its dots
RECURSIVE Fields(_)
Fields(s) ==
    IF \A i \in 1..Len(s) : s[i] # "." THEN <<s>>
    ELSE LET d == CHOOSE i \in 1..Len(s) :
                     s[i] = "." /\ \A j \in 1..(i - 1) : s[j] # "."
         IN  <<SubSeq(s, 1, d - 1)>> \o Fields(SubSeq(s, d + 1, Len(s)))

IsDigits(f) == \A i \in 1..Len(f) : f[i] \in Digits

RECURSIVE Decimal(_)
Decimal(f) ==
    IF f = <<>> THEN 0
    ELSE 10 * Decimal(SubSeq(f, 1, Len(f) - 1)) + DigitVal(f[Len(f)])

\* ^(\d{1,3})\.(\d{1,3})\.(\d{1,3})\.(\d{1,3})$
MatchesIPv4Pattern(s) ==
    LET fs == Fields(s)
    IN  /\ Len(fs) = 4
        /\ \A k \in 1..4 : Len(fs[k]) \in 1..3 /\ IsDigits(fs[k])

\* a parse that takes every text as an address
ParsesAsIPv4Always(s) == TRUE
\* net.ParseIP on dotted decimal text (Go 1.21 and later): four fields of
\* digits, none above 255, no leading zero in a field of several digits
ParsesAsIPv4(s) ==
    LET fs == Fields(s)
    IN  /\ Len(fs) = 4
        /\ \A k \in 1..4 :
             /\ Len(fs[k]) >= 1
             /\ IsDigits(fs[k])
             /\ Len(fs[k]) > 1 => fs[k][1] # "0"
             /\ Decimal(fs[k]) <= 255

\* ValidateIPv4: the empty test, the pattern, net.ParseIP; text that has
\* passed the pattern has no colon, so what ParseIP returns for it is an
\* IPv4 address and To4() is never nil
ValidateIPv4(ip) ==
    IF ip = <<>> THEN "empty"
    ELSE IF ~MatchesIPv4Pattern(ip) THEN "format"
    ELSE IF ~ParsesAsIPv4(ip) THEN "parse"
    ELSE "nil"

\* the variant that validates the body before it looks at the status
HTTPFetchBodyFirst(resp) ==
    IF resp.kind = "badurl" THEN [ip |-> <<>>, err |-> "create"]
    ELSE IF resp.kind = "transport" THEN [ip |-> <<>>, err |-> "request"]
    ELSE IF resp.kind = "readerr" THEN [ip |-> <<>>, err |-> "read"]
    ELSE IF ValidateIPv4(TrimSpace(resp.body)) = "nil"
    THEN [ip |-> TrimSpace(resp.body), err |-> "nil"]
    ELSE IF resp.status # StatusOK THEN [ip |-> <<>>, err |-> "status"]
    ELSE IF TrimSpace(resp.body) = <<>> THEN [ip |-> <<>>, err |-> "empty"]
    ELSE [ip |-> <<>>, err |-> "invalid"]

\* HTTPFetcher.Fetch: one GET, judged by status, then by the trimmed body
HTTPFetch(resp) ==
    IF resp.kind = "badurl" THEN [ip |-> <<>>, err |-> "create"]
    ELSE IF resp.kind = "transport" THEN [ip |-> <<>>, err |-> "request"]
    ELSE IF resp.status # StatusOK THEN [ip |-> <<>>, err |-> "status"]
    ELSE IF resp.kind = "readerr" THEN [ip |-> <<>>, err |-> "read"]
    ELSE LET ip == TrimSpace(resp.body)
         IN  IF ip = <<>> THEN [ip |-> <<>>, err |-> "empty"]
             ELSE IF ValidateIPv4(ip) # "nil"
             THEN [ip |-> <<>>, err |-> "invalid"]
             ELSE [ip |-> ip, err |-> "nil"]

\* bodies an IP source may answer with
OctetTexts == {<<"0">>, <<"2", "5", "5">>, <<"2", "5", "6">>, <<"0", "1">>}
Dotted(a, b, c, d) == a \o <<".">> \o b \o <<".">> \o c \o <<".">> \o d
SourceBodies ==
    {Dotted(a, b, c, d) : a, b, c, d \in OctetTexts}
      \cup {<<>>, <<"\n">>, <<" ", "\t">>,
            <<" ", "1", ".", "2", ".", "3", ".", "4", "\n">>,
            <<"1", ".", "2", ".", "3", ".", "4", "\r", "\n">>,
            <<VerticalTab, "1", ".", "2", ".", "3", ".", "4", "\f",
              NoBreakSpace>>,
            <<NextLine>>,
            <<IdeographicSpace, "1", ".", "2", ".", "3", ".", "4",
              LineSeparator>>,
            <<IdeographicSpace>>,
            <<"1", ".", "2", ".", "3">>,
            <<"1", ".", "2", ".", "3", ".", "4", ".", "5">>,
            <<"1", ".", "2", ".", ".", "4">>,
            <<"1", ".", "2", " ", ".", "3", ".", "4">>,
            <<"1", "2", "3", "4", ".", "1", ".", "1", ".", "1">>,
            <<":", ":", "1">>,
            <<"n", "o", "t", "-", "a", "n", "-", "i", "p">>}

\* http.NewRequestWithContext rejects f.URL
BadURL == [kind |-> "badurl", status |-> 0, body |-> <<>>]

SourceAnswers(ctxDone) ==
    IF ctxDone THEN {BadURL, TransportError}
    ELSE {BadURL, TransportError, ReadError}
            \cup [kind : {"http"}, status : Statuses, body : SourceBodies]

SourceInit ==
    /\ SchedInit
    /\ FetchIdle
    /\ RetryIdle
    /\ ucalls = <<>>
    /\ cc = <<>>
    /\ va = NoValidateCall
    /\ MainIdle
    /\ hf = [NoSourceCall EXCEPT !.pc = "entry"]

\* f.Fetch(ctx) is called: either http.NewRequestWithContext rejects f.URL
\* and Fetch returns at once, or the request is sent and Fetch waits in
\* f.client.Do / io.ReadAll
HTTPFetchCall ==
    /\ hf.pc = "entry"
    /\ \/ hf' = [pc |-> "done", ctxDone |-> cancelled, resp |-> BadURL,
                 out |-> HTTPFetch(BadURL)]
       \/ hf' = [hf EXCEPT !.pc = "inflight", !.ctxDone = cancelled]
    /\ UNCHANGED <<cancelled, schedVars, fetchVars, retryVars, ucalls, cc,
                   va, startVars>>

\* Do / ReadAll come back and Fetch returns; a context cancelled while the
\* call waited makes the request fail or comes too late to matter
HTTPFetchReturn ==
    /\ hf.pc = "inflight"
    /\ \E resp \in SourceAnswers(hf.ctxDone) \ {BadURL} :
         hf' = [hf EXCEPT !.pc = "done", !.resp = resp,
                          !.out = HTTPFetch(resp)]
    /\ UNCHANGED <<cancelled, schedVars, fetchVars, retryVars, ucalls, cc,
                   va, startVars>>

SourceNext ==
    \/ HTTPFetchCall
    \/ HTTPFetchReturn
    \/ Cancel

SourceSpec == SourceInit /\ [][SourceNext]_vars

\* ----------------------------------------------------------------- C30
\* C30: HTTPFetcher.Fetch returns an address only for a 200 answer whose
\* trimmed body is a valid IPv4 literal, and the address is that trimmed
\* body; otherwise it returns one error and no address: the request error
\* if the request failed, else the status error if the status is not 200
\* (whatever the body), else the empty-response error if the trimmed body
\* is empty, else the invalid-address error.
C30_SingleSourceFetch ==
    hf.pc = "done"
      => LET r == hf.resp
             o == hf.out
             t == TrimSpace(r.body)
             got == r.kind = "http"
         IN  /\ ~got => (o.err \in {"create", "request", "read"} /\ o.ip = <<>>)
             /\ (got /\ r.status # StatusOK)
                   => o = [ip |-> <<>>, err |-> "status"]
             /\ (got /\ r.status = StatusOK /\ t = <<>>)
                   => o = [ip |-> <<>>, err |-> "empty"]
             /\ (got /\ r.status = StatusOK /\ t # <<>>
                     /\ ValidateIPv4(t) # "nil")
                   => o = [ip |-> <<>>, err |-> "invalid"]
             /\ (got /\ r.status = StatusOK /\ ValidateIPv4(t) = "nil")
                   => o = [ip |-> t, err |-> "nil"]
             /\ o.err = "nil"
                   => /\ got
                      /\ r.status = StatusOK
                      /\ o.ip = t
                      /\ Len(Fields(o.ip)) = 4
                      /\ \A k \in 1..4 : Decimal(Fields(o.ip)[k]) \in 0..255
             /\ r.body = <<" ", "1", ".", "2", ".", "3", ".", "4", "\n">>
                   => (r.status = StatusOK
                          => o = [ip |-> <<"1", ".", "2", ".", "3", ".", "4">>,
                                  err |-> "nil"])
             /\ r.body = <<VerticalTab, "1", ".", "2", ".", "3", ".", "4", "\f",
                           NoBreakSpace>>
                   => (r.status = StatusOK
                          => o = [ip |-> <<"1", ".", "2", ".", "3", ".", "4">>,
                                  err |-> "nil"])
             /\ r.body = <<IdeographicSpace, "1", ".", "2", ".", "3", ".", "4",
                           LineSeparator>>
                   => (r.status = StatusOK
                          => o = [ip |-> <<"1", ".", "2", ".", "3", ".", "4">>,
                                  err |-> "nil"])
             /\ r.body \in {<<NextLine>>, <<IdeographicSpace>>}
                   => (r.status = StatusOK => o.err = "empty")
             /\ r.body \in {<<":", ":", "1">>,
                             Dotted(<<"2", "5", "6">>, <<"0">>, <<"0">>, <<"0">>)}
                   => (r.status = StatusOK => o.err = "invalid")

C30_Witness ==
    /\ hf.pc = "done"
    /\ hf.resp.status = StatusOK
    /\ hf.resp.body = <<"1", ".", "2", ".", "3", ".", "4", "\r", "\n">>
    /\ hf.out = [ip |-> <<"1", ".", "2", ".", "3", ".", "4">>, err |-> "nil"]

\* ================== UpdateWithRetry calls running at once on one Client
\* the goroutines that call c.UpdateWithRetry
Callers == {"g1", "g2"}

\* what one attempt of such a call can meet
ConcResponses ==
    {TransportError, [kind |-> "http", status |-> StatusOK, body |-> OK]}

\* the locals of one call before it has started
NewCall ==
    [pc |-> "entry", attempt |-> 0, lastErr |-> "none", tries |-> <<>>,
     waits |-> <<>>, peers |-> 0,
     result |-> [response |-> <<>>, err |-> "none", attempts |-> 0,
                 cause |-> "none"]]

\* calls between their entry and their return
Running(p) == {q \in Callers \ {p} : cc[q].pc \in {"inflight", "backoff"}}

\* a counter kept in the Client, which every call running on it advances
AttemptInClient(p) ==
    CHOOSE n \in {cc[q].attempt : q \in Callers} :
        \A q \in Callers : cc[q].attempt <= n
\* for attempt := 1; ...; attempt++: a local of the call
Attempt(p) == cc[p].attempt

CallReturn(c, response, err, cause) ==
    [c EXCEPT !.pc = "done",
              !.result = [response |-> response, err |-> err,
                          attempts |-> MaxAttempts(retry), cause |-> cause]]

\* top of the loop for attempt n of call c
CallBegin(c, n, cause) ==
    IF n > MaxAttempts(retry)
    THEN CallReturn([c EXCEPT !.attempt = n], <<>>, "exhausted", cause)
    ELSE IF CtxChecked(cancelled)
    THEN CallReturn([c EXCEPT !.attempt = n], <<>>, "cancelled", "ctx")
    ELSE [c EXCEPT !.attempt = n, !.pc = "inflight",
                   !.tries = Append(@, "pending")]

\* c.Update of call c's current attempt, numbered n, has returned u
CallAttemptReturn(c, n, u) ==
    LET d == [c EXCEPT !.tries[Len(c.tries)] = u.err]
    IN  IF AttemptSucceeded(u)
        THEN [d EXCEPT !.pc = "done",
                       !.result = [response |-> u.response, err |-> "nil",
                                   attempts |-> n, cause |-> "none"]]
        ELSE IF n < MaxAttempts(retry)
        THEN [d EXCEPT !.lastErr = LastErr(c.lastErr, u.err),
                       !.pc = "backoff",
                       !.waits = Append(@,
                           [after |-> n, dur |-> BackoffDuration(retry, n),
                            left |-> BackoffDuration(retry, n)])]
        ELSE CallReturn([d EXCEPT !.lastErr = LastErr(c.lastErr, u.err),
                                  !.attempt = n + 1],
                        <<>>, "exhausted", LastErr(c.lastErr, u.err))

ConcInit ==
    /\ SchedInit
    /\ FetchIdle
    /\ ucalls = <<>>
    /\ hf = NoSourceCall
    /\ va = NoValidateCall
    /\ MainIdle
    /\ opts \in RetryConfigs
    /\ retry = NewClientWithOptions(opts)
    /\ rpc = "idle"
    /\ attempt = 0
    /\ lastErr = "none"
    /\ tries = <<>>
    /\ waits = <<>>
    /\ elapsed = 0
    /\ rresult = [response |-> <<>>, err |-> "none", attempts |-> 0,
                  cause |-> "none"]
    /\ cc = [p \in Callers |-> NewCall]

concFrame == <<cancelled, schedVars, fetchVars, retryVars, ucalls, hf, va,
               startVars>>

\* goroutine p calls c.UpdateWithRetry
ConcCall(p) ==
    /\ cc[p].pc = "entry"
    /\ cc' = [cc EXCEPT ![p] =
                 CallBegin([@ EXCEPT !.peers = Cardinality(Running(p))],
                           1, "none")]
    /\ UNCHANGED concFrame

\* c.Update of p's current attempt returns
ConcAttemptReturn(p) ==
    /\ cc[p].pc = "inflight"
    /\ \E resp \in ConcResponses :
         cc' = [cc EXCEPT ![p] = CallAttemptReturn(@, Attempt(p), Update(resp))]
    /\ UNCHANGED concFrame

\* one time unit passes for every call that is waiting
ConcTimePasses ==
    /\ \E p \in Callers :
         cc[p].pc = "backoff" /\ cc[p].waits[Len(cc[p].waits)].left > 0
    /\ cc' = [p \in Callers |->
                IF cc[p].pc = "backoff" /\ cc[p].waits[Len(cc[p].waits)].left > 0
                THEN [cc[p] EXCEPT !.waits[Len(cc[p].waits)].left = @ - 1]
                ELSE cc[p]]
    /\ UNCHANGED concFrame

\* p's select takes case <-time.After(backoffDuration)
ConcBackoffElapsed(p) ==
    /\ cc[p].pc = "backoff"
    /\ TimerFired(cc[p].waits[Len(cc[p].waits)].left)
    /\ cc' = [cc EXCEPT ![p] = CallBegin(@, Attempt(p) + 1, @.lastErr)]
    /\ UNCHANGED concFrame

\* p's select takes case <-ctx.Done()
ConcBackoffCancelled(p) ==
    /\ cc[p].pc = "backoff"
    /\ cancelled
    /\ cc' = [cc EXCEPT ![p] = CallReturn(@, <<>>, ErrCancelledBackoff, "ctx")]
    /\ UNCHANGED concFrame

ConcNext ==
    \/ \E p \in Callers : ConcCall(p)
    \/ \E p \in Callers : ConcAttemptReturn(p)
    \/ ConcTimePasses
    \/ \E p \in Callers : ConcBackoffElapsed(p)
    \/ \E p \in Callers : ConcBackoffCancelled(p)
    \/ Cancel

ConcSpec == ConcInit /\ [][ConcNext]_vars

\* ----------------------------------------------------------------- C28
\* C28: the Client's retry configuration is never changed by a call, and
\* each of two calls running at once on one Client counts its own
\* attempts: it makes at most 1 + MaxRetries of them, its j-th wait lasts
\* the j-th (clamped) backoff duration, it returns success exactly when its
\* own last attempt succeeded, and the retries-exhausted error only after
\* 1 + MaxRetries failed attempts of its own.
C28_ConcurrentCallsIndependent ==
    /\ retry = NewClientWithOptions(opts)
    /\ \A p \in Callers :
         LET c == cc[p]
         IN  /\ Len(c.tries) <= 1 + retry.MaxRetries
             /\ c.pc = "inflight" => c.attempt = Len(c.tries)
             /\ \A j \in 1..Len(c.waits) :
                  /\ j <= Len(c.tries)
                  /\ c.waits[j].after = j
                  /\ c.waits[j].dur =
                        IF j <= Len(retry.Backoff) THEN retry.Backoff[j]
                        ELSE retry.Backoff[Len(retry.Backoff)]
             /\ c.result.err = "nil"
                   <=> (c.tries # <<>> /\ c.tries[Len(c.tries)] = "nil")
             /\ c.result.err = "nil" => c.result.attempts = Len(c.tries)
             /\ c.result.err = "exhausted"
                   => /\ Len(c.tries) = 1 + retry.MaxRetries
                      /\ \A j \in 1..Len(c.tries) : c.tries[j] = "request"

C28_Witness ==
    /\ cc["g1"].result.err = "exhausted"
    /\ Len(cc["g1"].tries) = 3
    /\ cc["g2"].peers = 1
    /\ cc["g2"].result.err = "nil"
    /\ Len(cc["g2"].tries) = 2
    /\ retry.Backoff = <<2, 1>>

\* =========================================================== ValidateIPv4
\* texts handed to ValidateIPv4
ValidateTexts ==
    SourceBodies
      \cup {<<"1", "9", "2", ".", "1", "6", "8", ".", "1", ".", "1">>,
            <<"8", ".", "8", ".", "8", ".", "8">>,
            <<"1", "9", "2", ".", "1", "6", "8", ".", "1">>,
            <<"1", ".", "2", ".", "3", ".", "4", ".">>,
            <<"1", ".", "2", ".", "3", ".", "a">>,
            <<"-", "1", ".", "2", ".", "3", ".", "4">>}

ValidateInit ==
    /\ SchedInit
    /\ FetchIdle
    /\ RetryIdle
    /\ ucalls = <<>>
    /\ hf = NoSourceCall
    /\ cc = <<>>
    /\ MainIdle
    /\ va = [NoValidateCall EXCEPT !.pc = "entry"]

\* ValidateIPv4(ip) is called and returns
ValidateCall ==
    /\ va.pc = "entry"
    /\ \E t \in ValidateTexts :
         va' = [pc |-> "done", ip |-> t, err |-> ValidateIPv4(t)]
    /\ UNCHANGED <<cancelled, schedVars, fetchVars, retryVars, ucalls, hf, cc,
                   startVars>>

ValidateNext == ValidateCall

ValidateSpec == ValidateInit /\ [][ValidateNext]_vars

\* four parts between dots, each of one to three decimal digits and of
\* value 0..255
FourOctets(t) ==
    /\ Len(Fields(t)) = 4
    /\ \A k \in 1..4 :
         /\ Len(Fields(t)[k]) \in 1..3
         /\ \A i \in 1..Len(Fields(t)[k]) : Fields(t)[k][i] \in Digits
         /\ Decimal(Fields(t)[k]) \in 0..255

\* an octet of several digits that begins with 0
LeadingZero(t) ==
    \E k \in 1..Len(Fields(t)) :
       Len(Fields(t)[k]) > 1 /\ Fields(t)[k][1] = "0"

\* ----------------------------------------------------------------- C31
\* C31 as stated: ValidateIPv4 returns nil exactly for the texts made of
\* four dot-separated decimal octets, each in 0..255.
C31_ValidExactlyFourOctets ==
    va.pc = "done" => (va.err = "nil" <=> FourOctets(va.ip))

\* C31 amended: ValidateIPv4 returns nil exactly for the texts made of four
\* dot-separated decimal octets, each in 0..255 and written without a
\* leading zero; it fails on the empty text, on an octet above 255, on
\* three or five groups, on non-numeric text and on "::1".
C31_ValidFourOctetsNoLeadingZero ==
    va.pc = "done"
      => /\ va.err = "nil" <=> (FourOctets(va.ip) /\ ~LeadingZero(va.ip))
         /\ va.ip \in {<<>>,
                        Dotted(<<"2", "5", "6">>, <<"0">>, <<"0">>, <<"0">>),
                        <<"1", ".", "2", ".", "3">>,
                        <<"1", ".", "2", ".", "3", ".", "4", ".", "5">>,
                        <<"n", "o", "t", "-", "a", "n", "-", "i", "p">>,
                        <<":", ":", "1">>}
               => va.err # "nil"
         /\ va.ip = <<>> => va.err = "empty"

C31_Witness ==
    /\ va.pc = "done"
    /\ va.ip = Dotted(<<"2", "5", "5">>, <<"0">>, <<"2", "5", "5">>, <<"0">>)
    /\ va.err = "nil"

\* ========================================== the Scheduler, further claims
\* ----------------------------------------------------------------- C32
\* C32: in every check cycle the Scheduler calls the fetcher exactly once
\* and the update client at most once, whether the update fails or not.
C32_SchedulerNeverRetries ==
    /\ cyc.kind # "none" => (cyc.fetchCalls = 1 /\ cyc.updCalls <= 1)
    /\ prev.kind # "none" => (prev.fetchCalls = 1 /\ prev.updCalls <= 1)
    /\ (CycleDone /\ cyc.updErr \notin {"none", "nil"}) => cyc.updCalls = 1

C32_Witness ==
    /\ CycleDone
    /\ cyc.fetchCalls = 1
    /\ cyc.updCalls = 1
    /\ cyc.updErr = "status"

\* ----------------------------------------------------------------- C34
\* C34: an update call is made only in a cycle whose fetch succeeded with
\* an address different from lastIP, and with that address and the
\* configured domain and token; interval, domain and token keep the values
\* given at construction.
C34_UpdateArgumentsFromFetch ==
    /\ \A c \in {cyc, prev} :
         c.updCalls > 0
            => /\ c.fetch.err = FALSE
               /\ c.fetch.ip # c.lastAtStart
               /\ c.updIP = c.fetch.ip
               /\ c.updDomain = "test-domain"
               /\ c.updToken = "test-token"
    /\ interval = 5
    /\ domain = "test-domain"
    /\ token = "test-token"

C34_Witness ==
    /\ cyc.updCalls = 1
    /\ cyc.lastAtStart = "1.2.3.4"
    /\ cyc.fetch = [err |-> FALSE, ip |-> "5.6.7.8"]
    /\ cyc.updIP = "5.6.7.8"

\* ----------------------------------------------------------------- C35
\* C35: a cycle started with an already cancelled context makes no update
\* call and leaves lastIP as it was at the start of the cycle.
C35_CancelledCycleChangesNothing ==
    (cyc.kind # "none" /\ cyc.ctxDone)
       => /\ cyc.updCalls = 0
          /\ lastIP = cyc.lastAtStart
          /\ cyc.fetch \in {NoFetch, FetchError}

C35_Witness ==
    /\ CycleDone
    /\ cyc.ctxDone
    /\ cyc.kind = "tick"
    /\ cyc.fetch = FetchError
    /\ lastIP = "1.2.3.4"

\* ----------------------------------------------------------------- C37
\* C37: lastIP changes only when an update call returns without error, and
\* then to the address that call was made with; every update call that
\* returns without error leaves lastIP at its address; lastIP is "" or an
\* address, and once it is an address it is never "" again.
C37_LastIPIsLastConfirmedAddress ==
    [][/\ lastIP' # lastIP
            => /\ phase = "updating"
               /\ cyc'.updErr = "nil"
               /\ lastIP' = cyc'.updIP
       /\ (phase = "updating" /\ cyc'.updErr = "nil" /\ cyc.updErr = "none")
            => lastIP' = cyc.updIP
       /\ lastIP' \in IPs \cup {""}
       /\ lastIP # "" => lastIP' # ""]_vars

C37_Witness ==
    /\ CycleDone
    /\ cyc.lastAtStart = "1.2.3.4"
    /\ cyc.updErr = "nil"
    /\ lastIP = "5.6.7.8"

\* ================================================================== main
\* ip_sources lists a configuration may hold; "a" and "b" stand for http
\* URLs with a host, "x" for a text isValidURL refuses
ConfigSources ==
    {<<>>, << <<" ", IdeographicSpace>> >>, << <<"x">> >>, << <<"a">> >>,
     << <<"a">>, <<"b">> >>, << <<"a">>, <<>> >>}

\* the texts of a configuration are sequences of characters, as the bodies
\* and the URLs are
TestDomain == <<"t", "e", "s", "t", "-", "d", "o", "m", "a", "i", "n">>
TestToken == <<"t", "e", "s", "t", "-", "t", "o", "k", "e", "n">>
Invalid == <<"i", "n", "v", "a", "l", "i", "d">>

\* U+0130, a code point that a string of this module cannot hold, by name
CapitalIWithDot == "U+0130"

\* log.level and log.format as a configuration may give them
LogConfigs ==
    {[logLevel |-> <<>>, logFormat |-> <<>>],
     [logLevel |-> <<"W", "a", "r", "n">>, logFormat |-> <<"J", "S", "O", "N">>],
     [logLevel |-> Invalid, logFormat |-> <<"j", "s", "o", "n">>],
     [logLevel |-> <<CapitalIWithDot, "N", "F", "O">>, logFormat |-> Invalid]}

\* what config.Load returns: an error, or a configuration; the interval is
\* in minutes
Configs ==
    {[loadErr |-> e, domain |-> d, token |-> t, interval |-> n,
      sources |-> u, logLevel |-> l.logLevel, logFormat |-> l.logFormat] :
        e \in BOOLEAN, d \in {<<>>, <<IdeographicSpace>>, TestDomain},
        t \in {<<>>, <<"\t", " ">>, TestToken}, n \in {-1, 0, 5},
        u \in ConfigSources, l \in LogConfigs}

IsValidURL(u) == u \in {<<"a">>, <<"b">>}

UpperLetters ==
    <<"A", "B", "C", "D", "E", "F", "G", "H", "I", "J", "K", "L", "M", "N",
      "O", "P", "Q", "R", "S", "T", "U", "V", "W", "X", "Y", "Z">>
LowerLetters ==
    <<"a", "b", "c", "d", "e", "f", "g", "h", "i", "j", "k", "l", "m", "n",
      "o", "p", "q", "r", "s", "t", "u", "v", "w", "x", "y", "z">>
\* unicode.ToLower on one code point: A..Z, and the two code points outside
\* ASCII whose lower case is an ASCII letter (U+0130 -> i, U+212A -> k); the
\* lower case of every other letter lies outside ASCII, as the letter does
LowerOf(c) ==
    IF \E i \in 1..26 : UpperLetters[i] = c
    THEN LowerLetters[CHOOSE i \in 1..26 : UpperLetters[i] = c]
    ELSE IF c = CapitalIWithDot THEN "i"
    ELSE IF c = "U+212A" THEN "k"
    ELSE c
\* strings.ToLower
ToLower(s) == [i \in 1..Len(s) |-> LowerOf(s[i])]

\* validLevels, validFormats of Validate
ValidLevels ==
    {<<"d", "e", "b", "u", "g">>, <<"i", "n", "f", "o">>, <<"w", "a", "r", "n">>,
     <<"e", "r", "r", "o", "r">>}
ValidFormats == {<<"j", "s", "o", "n">>, <<"t", "e", "x", "t">>}

\* the tests of Validate on everything but ip_sources
ValidateSettings(c) ==
    (IF TrimSpace(c.domain) = <<>> THEN {"domain"} ELSE {})
      \cup (IF TrimSpace(c.token) = <<>> THEN {"token"} ELSE {})
      \cup (IF c.interval = 0 THEN {"interval"}
            ELSE IF c.interval < 0 THEN {"interval_negative"} ELSE {})
      \cup (IF c.logLevel # <<>> /\ ToLower(c.logLevel) \notin ValidLevels
            THEN {"log_level"} ELSE {})
      \cup (IF c.logFormat # <<>> /\ ToLower(c.logFormat) \notin ValidFormats
            THEN {"log_format"} ELSE {})

\* the tests of Validate on ip_sources
ValidateSources(c) ==
    IF Len(c.sources) = 0 THEN {"no_sources"}
    ELSE {"source_empty" : i \in {j \in 1..Len(c.sources) :
                                    TrimSpace(c.sources[j]) = <<>>}}
         \cup {"source_invalid" :
                  i \in {j \in 1..Len(c.sources) :
                           /\ TrimSpace(c.sources[j]) # <<>>
                           /\ ~IsValidURL(c.sources[j])}}

\* Validate without the test of the source list
ValidateConfigNoSources(c) == ValidateSettings(c)
\* Config.Validate: the set of complaints collected; nil when it is empty
ValidateConfig(c) == ValidateSettings(c) \cup ValidateSources(c)

MainInit ==
    /\ SchedInit
    /\ FetchIdle
    /\ RetryIdle
    /\ ucalls = <<>>
    /\ hf = NoSourceCall
    /\ cc = <<>>
    /\ va = NoValidateCall
    /\ mpc = "start"
    /\ cfg \in Configs

\* loadConfiguration; on an error os.Exit(1); otherwise NewMultipleFetcher,
\* NewClient, NewScheduler, and Run is about to be called
MainStart ==
    /\ mpc = "start"
    /\ IF cfg.loadErr \/ ValidateConfig(cfg) # {}
       THEN /\ mpc' = "exit"
            /\ UNCHANGED <<config, URLs>>
       ELSE /\ mpc' = "running"
            /\ URLs' = cfg.sources
            /\ interval' = cfg.interval
            /\ domain' = cfg.domain
            /\ token' = cfg.token
    /\ UNCHANGED <<lastIP, pc, phase, currentIP, active, cancelled, tickerOn,
                   ticks, cycleNo, cyc, prev, fpc, fi, errors, requests,
                   fresult, retryVars, ucalls, hf, cc, va, cfg>>

\* sch.Run(ctx)
MainRun ==
    /\ mpc = "running"
    /\ \/ RunStart
       \/ FetchReturn
       \/ UpdateReturn
       \/ Tick
       \/ SelectTick
       \/ SelectDone

MainNext ==
    \/ MainStart
    \/ MainRun
    \/ Cancel

MainSpec == MainInit /\ [][MainNext]_vars

\* ----------------------------------------------------------------- C33
\* C33: with no IP source configured the program exits before the
\* Scheduler loop is started: no Run, no check cycle; a Scheduler that runs
\* has a fetcher with at least one source, the configured list.
C33_NoSourcesIsFatal ==
    /\ Len(cfg.sources) = 0
          => /\ mpc \in {"start", "exit"}
             /\ pc = "start"
             /\ cycleNo = 0
    /\ mpc = "running" => (URLs = cfg.sources /\ Len(URLs) > 0)
    /\ mpc # "running" => (pc = "start" /\ cycleNo = 0)

C33_Witness ==
    /\ mpc = "exit"
    /\ cfg = [loadErr |-> FALSE, domain |-> TestDomain,
              token |-> TestToken, interval |-> 5, sources |-> <<>>,
              logLevel |-> <<"W", "a", "r", "n">>,
              logFormat |-> <<"J", "S", "O", "N">>]
    /\ pc = "start"

\* ----------------------------------------------------------------- C36
\* C36: the retry policy of a Client built by NewClient or by
\* NewClientWithOptions has MaxRetries >= 1 and a non-empty Backoff, zero
\* values being replaced by 3 and [1, 2, 4]; so every backoff wait takes
\* its duration from inside the list, and a caller that asked for
\* MaxRetries = 0 gets up to 4 attempts.
C36_RetryPolicyDefaults ==
    /\ NewClient = [MaxRetries |-> 3, Backoff |-> <<1, 2, 4>>]
    /\ retry.MaxRetries >= 1
    /\ Len(retry.Backoff) >= 1
    /\ opts.MaxRetries <= 0 => retry.MaxRetries = NewClient.MaxRetries
    /\ opts.MaxRetries > 0 => retry.MaxRetries = opts.MaxRetries
    /\ opts.Backoff = <<>> => retry.Backoff = NewClient.Backoff
    /\ opts.Backoff # <<>> => retry.Backoff = opts.Backoff
    /\ \A j \in 1..Len(waits) :
         \E i \in 0..(Len(retry.Backoff) - 1) :
            /\ i = IF j - 1 >= Len(retry.Backoff) THEN Len(retry.Backoff) - 1
                   ELSE j - 1
            /\ waits[j].dur = retry.Backoff[i + 1]
    /\ (opts.MaxRetries = 0 /\ rresult.err = "exhausted") => Len(tries) = 4

C36_Witness ==
    /\ opts = [MaxRetries |-> 0, Backoff |-> <<>>]
    /\ retry = NewClient
    /\ RetryDone
    /\ rresult.err = "exhausted"
    /\ Len(tries) = 4
    /\ waits[3].dur = 4

\* ----------------------------------------------------------------- C38
\* C38: Fetch on a non-empty list whose entries are all blank starts no
\* per-source fetch and returns the all-sources-failed error, with one
\* 'URL is empty' note per entry, not the no-sources error.
C38_AllBlankListFailsAggregate ==
    (/\ FetchDone
     /\ Len(URLs) > 0
     /\ \A i \in 1..Len(URLs) : TrimSpace(URLs[i]) = <<>>)
       => /\ requests = <<>>
          /\ fresult = [ip |-> "", err |-> "all_failed"]
          /\ Len(errors) = Len(URLs)
          /\ \A i \in 1..Len(errors) :
               errors[i].kind = "url_empty" /\ errors[i].index = i - 1

C38_Witness ==
    /\ FetchDone
    /\ URLs = << <<" ">>, <<>>, <<" ">> >>
    /\ requests = <<>>
    /\ fresult.err = "all_failed"
    /\ Len(errors) = 3

\* ----------------------------------------------------------------- C39
\* the runtime keeps delivering ticks and the select takes a tick that is
\* ready (with no cancellation it is the only ready case)
TickFairSpec ==
    /\ FairSpec
    /\ WF_vars(Tick)
    /\ WF_vars(SelectTick)

\* the fetch of the current cycle, if it has returned, gave x, and its
\* update call, if it has returned, succeeded
GoodEnv(x) ==
    /\ cyc.fetch \in {NoFetch, [err |-> FALSE, ip |-> x]}
    /\ cyc.updErr \in {"none", "nil"}

\* C39: if from some point on every fetch gives the same address x and
\* every update call succeeds, and the context is never cancelled, then
\* from some point on lastIP = x and no update call is made any more.
C39_Convergence ==
    \A x \in IPs :
       (<>[]GoodEnv(x) /\ []~cancelled)
          => <>[](lastIP = x /\ phase # "updating")

C39_Witness ==
    /\ ~cancelled
    /\ CycleDone
    /\ lastIP = "5.6.7.8"
    /\ prev.fetch = FetchError
    /\ cyc.fetch = [err |-> FALSE, ip |-> "5.6.7.8"]
    /\ cyc.updErr = "nil"
    /\ cycleNo = MaxCycle
====
